---- MODULE Spec2Model ----
(***************************************************************************)
(* Mount-time initialisation and teardown of squashfs                      *)
(* (kernel/fs/squashfs/super.c): squashfs_fill_super, its two unwind       *)
(* labels failed_mount and failure, supported_squashfs_filesystem and      *)
(* squashfs_put_super.                                                     *)
(*                                                                         *)
(* Fixed-width integers wider than 16 bits are kept as tuples of 16-bit     *)
(* limbs, most significant limb first: a 64-bit value is <<w3,w2,w1,w0>>,  *)
(* a 32-bit value is <<hi,lo>>.  16-bit fields are plain numbers 0..65535. *)
(***************************************************************************)
EXTENDS Integers, Sequences, FiniteSets, TLC

VARIABLES
    disk,       \* the superblock stored on the block device (decoded fields)
    devsize,    \* i_size_read(sb->s_bdev->bd_inode), a signed 64-bit value
    silent,     \* the silent argument of squashfs_fill_super
    pc,         \* position of the mounting thread inside squashfs_fill_super
    sb,         \* struct super_block: s_fs_info, s_magic, s_flags, s_op, s_export_op, s_root
    msblk,      \* struct squashfs_sb_info, the record sb->s_fs_info points to
    sblk,       \* the local pointer sblk: "NULL" or "ptr"
    sblkbuf,    \* contents of *sblk: zeroes until squashfs_read_data fills it
    root,       \* the local pointer root: "NULL" or "ptr"
    err,        \* the local variable err
    ret,        \* value returned by squashfs_fill_super, "none" until it returns
    allocs,     \* per resource: number of successful allocations
    frees,      \* per resource: number of releases of a non-NULL pointer
    uaf,        \* TRUE once a released squashfs_sb_info has been dereferenced
    invoked,    \* the external loaders and constructors called so far
    diag,       \* the diagnostics emitted through ERROR()
    fault,      \* the step at which the attempt failed, "none" otherwise
    puts,       \* number of squashfs_put_super calls made
    code,       \* the code the failing external call returned, 0 if none failed
    statbuf,    \* struct kstatfs as the last squashfs_statfs left it
    remount,    \* the last squashfs_remount call: requested flags, *flags, result
    mod         \* the module: inode cache, registration, init and exit position

vars == <<disk, devsize, silent, pc, sb, msblk, sblk, sblkbuf, root, err, ret,
          allocs, frees, uaf, invoked, diag, fault, puts, code, statbuf,
          remount, mod>>

(***************************************************************************)
(* Error numbers and format constants.  super.c uses them by name; the     *)
(* values are those of errno.h and squashfs_fs.h (format 4.0, zlib = 1,    *)
(* 128 KiB data blocks, 8 KiB metadata blocks).  The properties depend     *)
(* only on how the fields compare with them.                               *)
(***************************************************************************)
ENOMEM == 12
EINVAL == 22
EIO == 5

SQUASHFS_MAJOR == 4
SQUASHFS_MINOR == 0
ZLIB_COMPRESSION == 1
SQUASHFS_FILE_LOG == 17
SQUASHFS_MAGIC == <<29553, 29544>>          \* 0x73717368
SQUASHFS_FILE_SIZE == <<2, 0>>              \* 131072
SQUASHFS_METADATA_SIZE == 8192
SQUASHFS_INVALID_BLK == <<65535, 65535, 65535, 65535>>   \* (long long) -1
SQUASHFS_NAME_LEN == 256
MS_RDONLY == 1
EBUSY == 16

(***************************************************************************)
(* Bound of the model                                                      *)
(***************************************************************************)
MaxPuts == 2

(***************************************************************************)
(* Fixed-width helpers                                                     *)
(***************************************************************************)
\* value of an unsigned 16-bit quantity converted to (signed) short
ToShort(x) == IF x >= 32768 THEN x - 65536 ELSE x

RECURSIVE LimbGT(_, _)
\* a > b for two unsigned values given as limb tuples of equal length
LimbGT(a, b) ==
    IF Len(a) = 0 THEN FALSE
    ELSE IF Head(a) # Head(b) THEN Head(a) > Head(b)
    ELSE LimbGT(Tail(a), Tail(b))

\* sign bit of a two's complement value given as a limb tuple
IsNegative(a) == a[1] >= 32768

\* a > b for two signed (two's complement) values of equal width
SignedGT(a, b) ==
    IF IsNegative(a) # IsNegative(b) THEN IsNegative(b)
    ELSE LimbGT(a, b)

\* SQUASHFS_INODE_OFFSET(a): (unsigned int) ((a) & 0xffff)
SQUASHFS_INODE_OFFSET(a) == a[4]

(***************************************************************************)
(* Inputs of one mount attempt                                             *)
(***************************************************************************)
Magics == {SQUASHFS_MAGIC, <<29553, 29545>>}
Majors == {3, 4, 5, 65535}
Minors == {0, 1, 32768}
Comps == {ZLIB_COMPRESSION, 2}
XattrStarts == {SQUASHFS_INVALID_BLK, <<0, 0, 0, 96>>}
DevSizes == {<<0, 0, 4, 0>>}
BytesUsed == {<<0, 0, 4, 0>>, <<0, 0, 4, 1>>, <<32768, 0, 0, 0>>}
BlockSizes == {<<2, 0>>, <<2, 1>>, <<0, 4096>>}
BlockLogs == {17, 18}
RootInodes == {<<0, 0, 5, 8192>>, <<0, 0, 5, 8193>>}
FragmentCounts == {0, 5}
LookupStarts == {SQUASHFS_INVALID_BLK, <<0, 0, 1, 0>>}
InodeCounts == {10}

\* struct squashfs_super_block, fields after le*_to_cpu
SuperBlocks ==
    [s_magic : Magics, s_major : Majors, s_minor : Minors,
     compression : Comps, xattr_table_start : XattrStarts,
     bytes_used : BytesUsed, block_size : BlockSizes, block_log : BlockLogs,
     root_inode : RootInodes, fragments : FragmentCounts,
     lookup_table_start : LookupStarts, inodes : InodeCounts]

\* codes an external reader or loader can fail with
ReadErrs == {-EIO}
LoaderErrs == {-EIO, -ENOMEM}
InodeErrs == {-EIO, -ENOMEM, -EINVAL}

Resources ==
    {"msblk", "workspace", "sblk", "block_cache", "read_page", "id_table",
     "fragment_cache", "fragment_index", "inode_lookup_table", "meta_index",
     "root"}

\* kzalloc(sizeof(*msblk)): every member zero
ZeroedSbInfo ==
    [workspace |-> "NULL", block_cache |-> "NULL", fragment_cache |-> "NULL",
     read_page |-> "NULL", id_table |-> "NULL", fragment_index |-> "NULL",
     inode_lookup_table |-> "NULL", meta_index |-> "NULL",
     bytes_used |-> <<0, 0, 0, 0>>, block_size |-> <<0, 0>>, block_log |-> 0,
     inodes |-> 0]

\* kzalloc(sizeof(*sblk)): every field zero
ZeroedSuperBlock ==
    [s_magic |-> <<0, 0>>, s_major |-> 0, s_minor |-> 0, compression |-> 0,
     xattr_table_start |-> <<0, 0, 0, 0>>, bytes_used |-> <<0, 0, 0, 0>>,
     block_size |-> <<0, 0>>, block_log |-> 0, root_inode |-> <<0, 0, 0, 0>>,
     fragments |-> 0, lookup_table_start |-> <<0, 0, 0, 0>>, inodes |-> 0]

\* a super block as the VFS hands it to fill_super
FreshSuperBlock ==
    [s_fs_info |-> "NULL", s_magic |-> <<0, 0>>, s_rdonly |-> FALSE,
     s_op |-> "NULL", s_export_op |-> "NULL", s_root |-> "NULL"]

\* a struct kstatfs nobody has filled yet
ZeroedKstatfs ==
    [f_type |-> <<0, 0>>, f_bsize |-> <<0, 0>>, f_blocks |-> 0, f_bfree |-> 0,
     f_bavail |-> 0, f_files |-> 0, f_ffree |-> 0, f_namelen |-> 0]

\* squashfs_remount has not been called
NoRemount == [called |-> FALSE, requested |-> 0, data |-> "", flags |-> 0, ret |-> 0]

\* the module after init_squashfs_fs returned 0
LoadedModule ==
    [pc |-> "loaded", cachep |-> "ptr", registered |-> TRUE, ret |-> 0,
     creates |-> 1, destroys |-> 0]

Init ==
    /\ disk \in SuperBlocks
    /\ devsize \in DevSizes
    /\ silent \in BOOLEAN
    /\ pc = "entry"
    /\ sb = FreshSuperBlock
    /\ msblk = ZeroedSbInfo
    /\ sblk = "NULL"
    /\ sblkbuf = ZeroedSuperBlock
    /\ root = "NULL"
    /\ err = 0
    /\ ret = "none"
    /\ allocs = [r \in Resources |-> 0]
    /\ frees = [r \in Resources |-> 0]
    /\ uaf = FALSE
    /\ invoked = {}
    /\ diag = {}
    /\ fault = "none"
    /\ puts = 0
    /\ code = 0
    /\ statbuf = ZeroedKstatfs
    /\ remount = NoRemount
    /\ mod = LoadedModule

(***************************************************************************)
(* supported_squashfs_filesystem(short major, short minor, short comp)     *)
(* The arguments arrive as unsigned 16-bit values and are converted to     *)
(* short by the call.                                                      *)
(***************************************************************************)
\* variant without the compression test of lines 61-62
supported_without_compression_test(major, minor, comp) ==
    LET mj == ToShort(major)
        mn == ToShort(minor)
    IN  IF mj < SQUASHFS_MAJOR
            THEN [err |-> -EINVAL, msgs |-> {"older_unsupported"}]
        ELSE IF mj > SQUASHFS_MAJOR \/ mn > SQUASHFS_MINOR
            THEN [err |-> -EINVAL, msgs |-> {"newer_filesystem", "update_kernel"}]
        ELSE [err |-> 0, msgs |-> {}]

supported_squashfs_filesystem(major, minor, comp) ==
    LET mj == ToShort(major)
        mn == ToShort(minor)
        cp == ToShort(comp)
    IN  IF mj < SQUASHFS_MAJOR
            THEN [err |-> -EINVAL, msgs |-> {"older_unsupported"}]
        ELSE IF mj > SQUASHFS_MAJOR \/ mn > SQUASHFS_MINOR
            THEN [err |-> -EINVAL, msgs |-> {"newer_filesystem", "update_kernel"}]
        ELSE IF cp # ZLIB_COMPRESSION
            THEN [err |-> -EINVAL, msgs |-> {}]
        ELSE [err |-> 0, msgs |-> {}]

(***************************************************************************)
(* Heap bookkeeping                                                        *)
(***************************************************************************)
\* the pointer through which the code reaches resource r
PtrOf(r) ==
    IF r = "msblk" THEN sb.s_fs_info
    ELSE IF r = "sblk" THEN sblk
    ELSE IF r = "root" THEN root
    ELSE msblk[r]

\* kmalloc/vmalloc/cache_init/loader returned an object of kind r
Allocated(r) == [allocs EXCEPT ![r] = @ + 1]

\* kfree/vfree/squashfs_cache_delete/iput applied to the pointers of the
\* resources in S: a NULL pointer is a no-op, anything else is a release
Released(S) ==
    [r \in Resources |->
        IF r \in S /\ PtrOf(r) # "NULL" THEN frees[r] + 1 ELSE frees[r]]

\* the record behind sb->s_fs_info is read or written
Deref == uaf \/ frees["msblk"] >= allocs["msblk"]

inputs == <<disk, devsize, silent>>

\* what squashfs_fill_super and squashfs_put_super never touch
outside == <<statbuf, remount, mod>>

(***************************************************************************)
(* squashfs_fill_super, lines 82-121: allocations and superblock read      *)
(***************************************************************************)
\* lines 82-87
kzalloc_sb_info ==
    /\ pc = "entry"
    /\ mod.registered
    /\ \E ok \in BOOLEAN :
        IF ok
        THEN /\ sb' = [sb EXCEPT !.s_fs_info = "msblk"]
             /\ msblk' = ZeroedSbInfo
             /\ allocs' = Allocated("msblk")
             /\ pc' = "workspace"
             /\ UNCHANGED <<diag, ret, fault>>
        ELSE /\ sb' = [sb EXCEPT !.s_fs_info = "NULL"]
             /\ diag' = diag \cup {"alloc_sb_info"}
             /\ ret' = -ENOMEM
             /\ fault' = "msblk"
             /\ pc' = "returned"
             /\ UNCHANGED <<msblk, allocs>>
    /\ UNCHANGED <<inputs, outside, code, sblk, sblkbuf, root, err, frees, uaf, invoked, puts>>

\* lines 89-93
vmalloc_workspace ==
    /\ pc = "workspace"
    /\ uaf' = Deref
    /\ \E ok \in BOOLEAN :
        IF ok
        THEN /\ msblk' = [msblk EXCEPT !.workspace = "ptr"]
             /\ allocs' = Allocated("workspace")
             /\ pc' = "sblk"
             /\ UNCHANGED <<diag, fault>>
        ELSE /\ diag' = diag \cup {"alloc_workspace"}
             /\ fault' = "workspace"
             /\ pc' = "failure"
             /\ UNCHANGED <<msblk, allocs>>
    /\ UNCHANGED <<inputs, outside, code, sb, sblk, sblkbuf, root, err, ret, frees, invoked, puts>>

\* lines 95-99
kzalloc_sblk ==
    /\ pc = "sblk"
    /\ \E ok \in BOOLEAN :
        IF ok
        THEN /\ sblk' = "ptr"
             /\ allocs' = Allocated("sblk")
             /\ pc' = "read_super"
             /\ UNCHANGED <<diag, fault>>
        ELSE /\ diag' = diag \cup {"alloc_super_block"}
             /\ fault' = "sblk"
             /\ pc' = "failure"
             /\ UNCHANGED <<sblk, allocs>>
    /\ UNCHANGED <<inputs, outside, code, sb, msblk, sblkbuf, root, err, ret, frees, uaf, invoked, puts>>

\* lines 101-121: bytes_used gets the dummy value sizeof(*sblk), then the
\* superblock is read from SQUASHFS_START
read_super_block ==
    /\ pc = "read_super"
    /\ uaf' = Deref
    /\ msblk' = [msblk EXCEPT !.bytes_used = <<0, 0, 0, 96>>]
    /\ invoked' = invoked \cup {"squashfs_read_data"}
    /\ \/ /\ sblkbuf' = disk
          /\ err' = 96
          /\ pc' = "magic"
          /\ UNCHANGED <<diag, fault, code>>
       \/ \E e \in ReadErrs :
          /\ err' = e
          /\ diag' = diag \cup {"read_super_block"}
          /\ fault' = "read_super"
          /\ code' = e
          /\ pc' = "failed_mount"
          /\ UNCHANGED sblkbuf
    /\ UNCHANGED <<inputs, outside, sb, sblk, root, ret, allocs, frees, puts>>

(***************************************************************************)
(* squashfs_fill_super, lines 123-194: validation of the superblock        *)
(***************************************************************************)
\* variant of lines 123-131 that lacks the goto failed_mount
check_magic_without_goto ==
    /\ pc = "magic"
    /\ sb' = [sb EXCEPT !.s_magic = sblkbuf.s_magic]
    /\ IF sblkbuf.s_magic # SQUASHFS_MAGIC
       THEN /\ diag' = IF ~silent THEN diag \cup {"no_superblock"} ELSE diag
            /\ err' = -EINVAL
            /\ pc' = "supported"
            /\ UNCHANGED fault
       ELSE /\ pc' = "supported"
            /\ UNCHANGED <<diag, err, fault>>
    /\ UNCHANGED <<inputs, outside, code, msblk, sblk, sblkbuf, root, ret, allocs, frees, uaf,
                   invoked, puts>>

\* lines 123-131
check_magic ==
    /\ pc = "magic"
    /\ sb' = [sb EXCEPT !.s_magic = sblkbuf.s_magic]
    /\ IF sblkbuf.s_magic # SQUASHFS_MAGIC
       THEN /\ diag' = IF ~silent THEN diag \cup {"no_superblock"} ELSE diag
            /\ err' = -EINVAL
            /\ fault' = "magic"
            /\ pc' = "failed_mount"
       ELSE /\ pc' = "supported"
            /\ UNCHANGED <<diag, err, fault>>
    /\ UNCHANGED <<inputs, outside, code, msblk, sblk, sblkbuf, root, ret, allocs, frees, uaf,
                   invoked, puts>>

\* variant of lines 133-140 whose version messages are held back when
\* silent is set
check_supported_silenced ==
    /\ pc = "supported"
    /\ LET r == supported_squashfs_filesystem(sblkbuf.s_major, sblkbuf.s_minor,
                                              sblkbuf.compression)
       IN  /\ diag' = IF silent THEN diag ELSE diag \cup r.msgs
           /\ IF r.err < 0
              THEN /\ err' = r.err
                   /\ fault' = "supported"
                   /\ pc' = "failed_mount"
              ELSE /\ err' = -EINVAL
                   /\ pc' = "sanity"
                   /\ UNCHANGED fault
    /\ UNCHANGED <<inputs, outside, code, sb, msblk, sblk, sblkbuf, root, ret, allocs, frees,
                   uaf, invoked, puts>>

\* lines 133-140
check_supported ==
    /\ pc = "supported"
    /\ LET r == supported_squashfs_filesystem(sblkbuf.s_major, sblkbuf.s_minor,
                                              sblkbuf.compression)
       IN  /\ diag' = diag \cup r.msgs
           /\ IF r.err < 0
              THEN /\ err' = r.err
                   /\ fault' = "supported"
                   /\ pc' = "failed_mount"
              ELSE /\ err' = -EINVAL
                   /\ pc' = "sanity"
                   /\ UNCHANGED fault
    /\ UNCHANGED <<inputs, outside, code, sb, msblk, sblk, sblkbuf, root, ret, allocs, frees,
                   uaf, invoked, puts>>

\* variant whose block_log test is >= instead of >
sanity_failure_strict_block_log(s, size) ==
    IF IsNegative(s.bytes_used) \/ SignedGT(s.bytes_used, size)
        THEN "bytes_used"
    ELSE IF LimbGT(s.block_size, SQUASHFS_FILE_SIZE)
        THEN "block_size"
    ELSE IF s.block_log >= SQUASHFS_FILE_LOG
        THEN "block_log"
    ELSE IF SQUASHFS_INODE_OFFSET(s.root_inode) > SQUASHFS_METADATA_SIZE
        THEN "root_inode"
    ELSE "none"

\* the first of the checks of lines 149-168 that rejects superblock s on a
\* device of the given size, "none" when all four pass
sanity_failure(s, size) ==
    IF IsNegative(s.bytes_used) \/ SignedGT(s.bytes_used, size)
        THEN "bytes_used"
    ELSE IF LimbGT(s.block_size, SQUASHFS_FILE_SIZE)
        THEN "block_size"
    ELSE IF s.block_log > SQUASHFS_FILE_LOG
        THEN "block_log"
    ELSE IF SQUASHFS_INODE_OFFSET(s.root_inode) > SQUASHFS_METADATA_SIZE
        THEN "root_inode"
    ELSE "none"

\* variant of lines 142-194 that rejects a superblock with extended
\* attributes instead of going on after the warning
check_sanity_rejecting_xattrs ==
    /\ pc = "sanity"
    /\ uaf' = Deref
    /\ diag' = IF sblkbuf.xattr_table_start # SQUASHFS_INVALID_BLK
               THEN diag \cup {"xattrs_ignored"} ELSE diag
    /\ LET f == IF sblkbuf.xattr_table_start # SQUASHFS_INVALID_BLK
                THEN "root_inode"
                ELSE sanity_failure(sblkbuf, devsize)
           m1 == [msblk EXCEPT !.bytes_used = sblkbuf.bytes_used]
           m2 == [m1 EXCEPT !.block_size = sblkbuf.block_size]
           m3 == [m2 EXCEPT !.block_log = sblkbuf.block_log]
           m4 == [m3 EXCEPT !.inodes = sblkbuf.inodes]
       IN  /\ msblk' = IF f = "bytes_used" THEN m1
                       ELSE IF f = "block_size" THEN m2
                       ELSE IF f \in {"block_log", "root_inode"} THEN m3
                       ELSE m4
           /\ IF f # "none"
              THEN /\ fault' = f
                   /\ pc' = "failed_mount"
                   /\ UNCHANGED sb
              ELSE /\ sb' = [sb EXCEPT !.s_rdonly = TRUE, !.s_op = "squashfs_super_ops"]
                   /\ pc' = "block_cache"
                   /\ UNCHANGED fault
    /\ UNCHANGED <<inputs, outside, code, sblk, sblkbuf, root, err, ret, allocs, frees, invoked, puts>>

\* lines 142-194: xattr warning, the four sanity checks (each field is
\* stored in msblk just before it is checked), then the scalars and the
\* super block flags and operations
check_sanity ==
    /\ pc = "sanity"
    /\ uaf' = Deref
    /\ diag' = IF sblkbuf.xattr_table_start # SQUASHFS_INVALID_BLK
               THEN diag \cup {"xattrs_ignored"} ELSE diag
    /\ LET f == sanity_failure(sblkbuf, devsize)
           m1 == [msblk EXCEPT !.bytes_used = sblkbuf.bytes_used]
           m2 == [m1 EXCEPT !.block_size = sblkbuf.block_size]
           m3 == [m2 EXCEPT !.block_log = sblkbuf.block_log]
           m4 == [m3 EXCEPT !.inodes = sblkbuf.inodes]
       IN  /\ msblk' = IF f = "bytes_used" THEN m1
                       ELSE IF f = "block_size" THEN m2
                       ELSE IF f \in {"block_log", "root_inode"} THEN m3
                       ELSE m4
           /\ IF f # "none"
              THEN /\ fault' = f
                   /\ pc' = "failed_mount"
                   /\ UNCHANGED sb
              ELSE /\ sb' = [sb EXCEPT !.s_rdonly = TRUE, !.s_op = "squashfs_super_ops"]
                   /\ pc' = "block_cache"
                   /\ UNCHANGED fault
    /\ UNCHANGED <<inputs, outside, code, sblk, sblkbuf, root, err, ret, allocs, frees, invoked, puts>>

(***************************************************************************)
(* squashfs_fill_super, lines 196-279: acquisition of caches, tables, root *)
(***************************************************************************)
\* lines 196-201
init_block_cache ==
    /\ pc = "block_cache"
    /\ uaf' = Deref
    /\ err' = -ENOMEM
    /\ invoked' = invoked \cup {"squashfs_cache_init_metadata"}
    /\ \E ok \in BOOLEAN :
        IF ok
        THEN /\ msblk' = [msblk EXCEPT !.block_cache = "ptr"]
             /\ allocs' = Allocated("block_cache")
             /\ pc' = "read_page"
             /\ UNCHANGED fault
        ELSE /\ fault' = "block_cache"
             /\ pc' = "failed_mount"
             /\ UNCHANGED <<msblk, allocs>>
    /\ UNCHANGED <<inputs, outside, code, sb, sblk, sblkbuf, root, ret, frees, diag, puts>>

\* lines 203-208
vmalloc_read_page ==
    /\ pc = "read_page"
    /\ uaf' = Deref
    /\ \E ok \in BOOLEAN :
        IF ok
        THEN /\ msblk' = [msblk EXCEPT !.read_page = "ptr"]
             /\ allocs' = Allocated("read_page")
             /\ pc' = "id_table"
             /\ UNCHANGED <<diag, fault>>
        ELSE /\ diag' = diag \cup {"alloc_read_page"}
             /\ fault' = "read_page"
             /\ pc' = "failed_mount"
             /\ UNCHANGED <<msblk, allocs>>
    /\ UNCHANGED <<inputs, outside, code, sb, sblk, sblkbuf, root, err, ret, frees, invoked, puts>>

\* variant of lines 210-217 that leaves err as the previous step set it
load_id_table_keeping_err ==
    /\ pc = "id_table"
    /\ uaf' = Deref
    /\ invoked' = invoked \cup {"read_id_index_table"}
    /\ \/ /\ msblk' = [msblk EXCEPT !.id_table = "ptr"]
          /\ allocs' = Allocated("id_table")
          /\ pc' = "fragments"
          /\ UNCHANGED <<err, fault, code>>
       \/ \E e \in LoaderErrs :
          /\ msblk' = [msblk EXCEPT !.id_table = "NULL"]
          /\ fault' = "id_table"
          /\ code' = e
          /\ pc' = "failed_mount"
          /\ UNCHANGED <<err, allocs>>
    /\ UNCHANGED <<inputs, outside, sb, sblk, sblkbuf, root, ret, frees, diag, puts>>

\* lines 210-217
load_id_table ==
    /\ pc = "id_table"
    /\ uaf' = Deref
    /\ invoked' = invoked \cup {"read_id_index_table"}
    /\ \/ /\ msblk' = [msblk EXCEPT !.id_table = "ptr"]
          /\ allocs' = Allocated("id_table")
          /\ pc' = "fragments"
          /\ UNCHANGED <<err, fault, code>>
       \/ \E e \in LoaderErrs :
          /\ err' = e
          /\ msblk' = [msblk EXCEPT !.id_table = "NULL"]
          /\ fault' = "id_table"
          /\ code' = e
          /\ pc' = "failed_mount"
          /\ UNCHANGED allocs
    /\ UNCHANGED <<inputs, outside, sb, sblk, sblkbuf, root, ret, frees, diag, puts>>

\* variant that sets up the fragment subsystem whatever the count
has_fragments_always(fragments) == TRUE

\* line 220: the image has a fragment subsystem
has_fragments(fragments) == fragments # 0

\* variant of lines 219-228 that goes on to the lookup table without
\* loading the fragment index
init_fragment_cache_skipping_index ==
    /\ pc = "fragments"
    /\ IF ~has_fragments(sblkbuf.fragments)
       THEN /\ pc' = "lookup_table"
            /\ UNCHANGED <<msblk, allocs, err, fault, invoked, uaf>>
       ELSE /\ uaf' = Deref
            /\ invoked' = invoked \cup {"squashfs_cache_init_fragment"}
            /\ \E ok \in BOOLEAN :
                IF ok
                THEN /\ msblk' = [msblk EXCEPT !.fragment_cache = "ptr"]
                     /\ allocs' = Allocated("fragment_cache")
                     /\ pc' = "lookup_table"
                     /\ UNCHANGED <<err, fault>>
                ELSE /\ err' = -ENOMEM
                     /\ fault' = "fragment_cache"
                     /\ pc' = "failed_mount"
                     /\ UNCHANGED <<msblk, allocs>>
    /\ UNCHANGED <<inputs, outside, code, sb, sblk, sblkbuf, root, ret, frees, diag, puts>>

\* lines 219-228
init_fragment_cache ==
    /\ pc = "fragments"
    /\ IF ~has_fragments(sblkbuf.fragments)
       THEN /\ pc' = "lookup_table"
            /\ UNCHANGED <<msblk, allocs, err, fault, invoked, uaf>>
       ELSE /\ uaf' = Deref
            /\ invoked' = invoked \cup {"squashfs_cache_init_fragment"}
            /\ \E ok \in BOOLEAN :
                IF ok
                THEN /\ msblk' = [msblk EXCEPT !.fragment_cache = "ptr"]
                     /\ allocs' = Allocated("fragment_cache")
                     /\ pc' = "fragment_index"
                     /\ UNCHANGED <<err, fault>>
                ELSE /\ err' = -ENOMEM
                     /\ fault' = "fragment_cache"
                     /\ pc' = "failed_mount"
                     /\ UNCHANGED <<msblk, allocs>>
    /\ UNCHANGED <<inputs, outside, code, sb, sblk, sblkbuf, root, ret, frees, diag, puts>>

\* lines 230-237
load_fragment_index ==
    /\ pc = "fragment_index"
    /\ uaf' = Deref
    /\ invoked' = invoked \cup {"read_fragment_index_table"}
    /\ \/ /\ msblk' = [msblk EXCEPT !.fragment_index = "ptr"]
          /\ allocs' = Allocated("fragment_index")
          /\ pc' = "lookup_table"
          /\ UNCHANGED <<err, fault, code>>
       \/ \E e \in LoaderErrs :
          /\ err' = e
          /\ msblk' = [msblk EXCEPT !.fragment_index = "NULL"]
          /\ fault' = "fragment_index"
          /\ code' = e
          /\ pc' = "failed_mount"
          /\ UNCHANGED allocs
    /\ UNCHANGED <<inputs, outside, sb, sblk, sblkbuf, root, ret, frees, diag, puts>>

\* variant that takes 0, not SQUASHFS_INVALID_BLK, for the absent table
has_lookup_table_nonzero(lookup_table_start) ==
    lookup_table_start # <<0, 0, 0, 0>>

\* line 241: the image has an inode lookup table
has_lookup_table(lookup_table_start) ==
    lookup_table_start # SQUASHFS_INVALID_BLK

\* lines 239-253
load_inode_lookup_table ==
    /\ pc = "lookup_table"
    /\ IF ~has_lookup_table(sblkbuf.lookup_table_start)
       THEN /\ pc' = "new_inode"
            /\ UNCHANGED <<sb, msblk, allocs, err, fault, code, invoked, uaf>>
       ELSE /\ uaf' = Deref
            /\ invoked' = invoked \cup {"read_inode_lookup_table"}
            /\ \/ /\ msblk' = [msblk EXCEPT !.inode_lookup_table = "ptr"]
                  /\ allocs' = Allocated("inode_lookup_table")
                  /\ sb' = [sb EXCEPT !.s_export_op = "squashfs_export_ops"]
                  /\ pc' = "new_inode"
                  /\ UNCHANGED <<err, fault, code>>
               \/ \E e \in LoaderErrs :
                  /\ err' = e
                  /\ msblk' = [msblk EXCEPT !.inode_lookup_table = "NULL"]
                  /\ fault' = "inode_lookup_table"
                  /\ code' = e
                  /\ pc' = "failed_mount"
                  /\ UNCHANGED <<sb, allocs>>
    /\ UNCHANGED <<inputs, outside, sblk, sblkbuf, root, ret, frees, diag, puts>>

\* lines 255-260
new_inode ==
    /\ pc = "new_inode"
    /\ \E ok \in BOOLEAN :
        IF ok
        THEN /\ root' = "ptr"
             /\ allocs' = Allocated("root")
             /\ pc' = "read_inode"
             /\ UNCHANGED <<err, fault>>
        ELSE /\ root' = "NULL"
             /\ err' = -ENOMEM
             /\ fault' = "new_inode"
             /\ pc' = "failed_mount"
             /\ UNCHANGED allocs
    /\ UNCHANGED <<inputs, outside, code, sb, msblk, sblk, sblkbuf, ret, frees, uaf, invoked, diag, puts>>

\* lines 262-267: on error iget_failed drops the only reference to root
squashfs_read_inode ==
    /\ pc = "read_inode"
    /\ invoked' = invoked \cup {"squashfs_read_inode"}
    /\ \/ /\ err' = 0
          /\ pc' = "d_alloc_root"
          /\ UNCHANGED <<frees, fault, code>>
       \/ \E e \in InodeErrs :
          /\ err' = e
          /\ frees' = Released({"root"})
          /\ fault' = "read_inode"
          /\ code' = e
          /\ pc' = "failed_mount"
    /\ UNCHANGED <<inputs, outside, sb, msblk, sblk, sblkbuf, root, ret, allocs, uaf, diag, puts>>

\* variant of lines 269-279 that returns 0 without kfree(sblk)
d_alloc_root_without_kfree ==
    /\ pc = "d_alloc_root"
    /\ \E ok \in BOOLEAN :
        IF ok
        THEN /\ sb' = [sb EXCEPT !.s_root = "dentry"]
             /\ ret' = 0
             /\ pc' = "returned"
             /\ UNCHANGED <<err, diag, fault, frees>>
        ELSE /\ sb' = [sb EXCEPT !.s_root = "NULL"]
             /\ diag' = diag \cup {"root_create_failed"}
             /\ err' = -ENOMEM
             /\ frees' = Released({"root"})
             /\ fault' = "d_alloc_root"
             /\ pc' = "failed_mount"
             /\ UNCHANGED ret
    /\ UNCHANGED <<inputs, outside, code, msblk, sblk, sblkbuf, root, allocs, uaf, invoked, puts>>

\* lines 269-279: on success the scratch copy is freed and 0 returned; on
\* failure iput drops the only reference to root
d_alloc_root ==
    /\ pc = "d_alloc_root"
    /\ \E ok \in BOOLEAN :
        IF ok
        THEN /\ sb' = [sb EXCEPT !.s_root = "dentry"]
             /\ frees' = Released({"sblk"})
             /\ ret' = 0
             /\ pc' = "returned"
             /\ UNCHANGED <<err, diag, fault>>
        ELSE /\ sb' = [sb EXCEPT !.s_root = "NULL"]
             /\ diag' = diag \cup {"root_create_failed"}
             /\ err' = -ENOMEM
             /\ frees' = Released({"root"})
             /\ fault' = "d_alloc_root"
             /\ pc' = "failed_mount"
             /\ UNCHANGED ret
    /\ UNCHANGED <<inputs, outside, code, msblk, sblk, sblkbuf, root, allocs, uaf, invoked, puts>>

(***************************************************************************)
(* squashfs_fill_super, lines 281-298: the two unwind labels               *)
(***************************************************************************)
\* variant of the label that forgets kfree(msblk->id_table)
failed_mount_released_without_id_table ==
    {"block_cache", "fragment_cache", "inode_lookup_table", "fragment_index",
     "read_page", "workspace", "msblk", "sblk"}

\* what the label failed_mount passes to cache_delete, kfree and vfree
failed_mount_released ==
    {"block_cache", "fragment_cache", "inode_lookup_table", "fragment_index",
     "id_table", "read_page", "workspace", "msblk", "sblk"}

\* lines 281-292
failed_mount ==
    /\ pc = "failed_mount"
    /\ uaf' = Deref
    /\ frees' = Released(failed_mount_released)
    /\ sb' = [sb EXCEPT !.s_fs_info = "NULL"]
    /\ ret' = err
    /\ pc' = "returned"
    /\ UNCHANGED <<inputs, outside, code, msblk, sblk, sblkbuf, root, err, allocs, invoked, diag,
                   fault, puts>>

\* variant of lines 294-298 that leaves sb->s_fs_info pointing at the
\* freed record
failure_keeps_fs_info ==
    /\ pc = "failure"
    /\ uaf' = Deref
    /\ frees' = Released({"workspace", "msblk"})
    /\ ret' = -ENOMEM
    /\ pc' = "returned"
    /\ UNCHANGED <<inputs, outside, code, sb, msblk, sblk, sblkbuf, root, err, allocs, invoked,
                   diag, fault, puts>>

\* lines 294-298
failure ==
    /\ pc = "failure"
    /\ uaf' = Deref
    /\ frees' = Released({"workspace", "msblk"})
    /\ sb' = [sb EXCEPT !.s_fs_info = "NULL"]
    /\ ret' = -ENOMEM
    /\ pc' = "returned"
    /\ UNCHANGED <<inputs, outside, code, msblk, sblk, sblkbuf, root, err, allocs, invoked, diag,
                   fault, puts>>

(***************************************************************************)
(* After squashfs_fill_super returned                                      *)
(***************************************************************************)
\* the volume is mounted: fill_super returned 0 and put_super has not run
Mounted == pc = "returned" /\ ret = 0 /\ sb.s_fs_info # "NULL"

\* a file read builds the meta index the first time it needs one
empty_meta_index ==
    /\ Mounted
    /\ msblk.meta_index = "NULL"
    /\ uaf' = Deref
    /\ msblk' = [msblk EXCEPT !.meta_index = "ptr"]
    /\ allocs' = Allocated("meta_index")
    /\ UNCHANGED <<inputs, outside, code, pc, sb, sblk, sblkbuf, root, err, ret, frees, invoked,
                   diag, fault, puts>>

\* what squashfs_put_super passes to cache_delete, kfree and vfree
put_super_released ==
    {"block_cache", "fragment_cache", "read_page", "id_table",
     "fragment_index", "meta_index", "workspace", "msblk"}

\* variant of lines 327-341 that does not clear sb->s_fs_info
put_super_keeps_fs_info ==
    /\ pc = "returned"
    /\ puts < MaxPuts
    /\ puts' = puts + 1
    /\ IF sb.s_fs_info # "NULL"
       THEN /\ uaf' = Deref
            /\ frees' = Released(put_super_released)
            /\ UNCHANGED sb
       ELSE UNCHANGED <<uaf, frees, sb>>
    /\ UNCHANGED <<inputs, outside, code, pc, msblk, sblk, sblkbuf, root, err, ret, allocs,
                   invoked, diag, fault>>

\* lines 327-341
squashfs_put_super ==
    /\ pc = "returned"
    /\ puts < MaxPuts
    /\ puts' = puts + 1
    /\ IF sb.s_fs_info # "NULL"
       THEN /\ uaf' = Deref
            /\ frees' = Released(put_super_released)
            /\ sb' = [sb EXCEPT !.s_fs_info = "NULL"]
       ELSE UNCHANGED <<uaf, frees, sb>>
    /\ UNCHANGED <<inputs, outside, code, pc, msblk, sblk, sblkbuf, root, err, ret, allocs,
                   invoked, diag, fault>>

\* value of a 64-bit quantity in the range 0 .. 2^31 - 1, where every
\* bytes_used the sanity checks let through lies
SmallValue(a) == a[Len(a) - 1] * 65536 + a[Len(a)]

\* x >> n for a signed x: the arithmetic shift rounds towards minus infinity
ShiftRight(x, n) == x \div (2 ^ n)

\* line 310: ((msblk->bytes_used - 1) >> msblk->block_log) + 1
statfs_blocks(bytes_used, block_log) ==
    ShiftRight(SmallValue(bytes_used) - 1, block_log) + 1

\* lines 302-317
squashfs_statfs ==
    /\ Mounted
    /\ uaf' = Deref
    /\ statbuf' = [f_type |-> SQUASHFS_MAGIC,
                   f_bsize |-> msblk.block_size,
                   f_blocks |-> statfs_blocks(msblk.bytes_used, msblk.block_log),
                   f_bfree |-> 0,
                   f_bavail |-> 0,
                   f_files |-> msblk.inodes,
                   f_ffree |-> 0,
                   f_namelen |-> SQUASHFS_NAME_LEN]
    /\ UNCHANGED <<inputs, pc, sb, msblk, sblk, sblkbuf, root, err, ret, allocs,
                   frees, invoked, diag, fault, puts, code, remount, mod>>

RECURSIVE BitOr(_, _)
\* a | b for two non-negative ints
BitOr(a, b) ==
    IF a = 0 THEN b
    ELSE IF b = 0 THEN a
    ELSE (IF a % 2 = 1 \/ b % 2 = 1 THEN 1 ELSE 0)
         + 2 * BitOr(a \div 2, b \div 2)

\* the flags and option strings a remount is requested with
RemountFlags == {0, 1, 2, 1024, 1027}
RemountData == {"", "rw"}

\* variant that assigns MS_RDONLY instead of or-ing it in
remount_flags_assigned(flags) == MS_RDONLY

\* line 322: *flags |= MS_RDONLY
remount_flags(flags) == BitOr(flags, MS_RDONLY)

\* lines 320-324
squashfs_remount ==
    /\ Mounted
    /\ \E flags \in RemountFlags, data \in RemountData :
          remount' = [called |-> TRUE, requested |-> flags, data |-> data,
                      flags |-> remount_flags(flags), ret |-> 0]
    /\ UNCHANGED <<inputs, pc, sb, msblk, sblk, sblkbuf, root, err, ret, allocs,
                   frees, uaf, invoked, diag, fault, puts, code, statbuf, mod>>

Next ==
    \/ kzalloc_sb_info
    \/ vmalloc_workspace
    \/ kzalloc_sblk
    \/ read_super_block
    \/ check_magic
    \/ check_supported
    \/ check_sanity
    \/ init_block_cache
    \/ vmalloc_read_page
    \/ load_id_table
    \/ init_fragment_cache
    \/ load_fragment_index
    \/ load_inode_lookup_table
    \/ new_inode
    \/ squashfs_read_inode
    \/ d_alloc_root
    \/ failed_mount
    \/ failure
    \/ empty_meta_index
    \/ squashfs_statfs
    \/ squashfs_remount
    \/ squashfs_put_super

Spec == Init /\ [][Next]_vars

(***************************************************************************)
(* Module init and exit, lines 364-404, around the mounts of one volume     *)
(***************************************************************************)
\* everything but the module state
mount == <<inputs, pc, sb, msblk, sblk, sblkbuf, root, err, ret, allocs, frees,
           uaf, invoked, diag, fault, puts, code, statbuf, remount>>

\* the module before init_squashfs_fs runs
UnloadedModule ==
    [pc |-> "init", cachep |-> "NULL", registered |-> FALSE, ret |-> 0,
     creates |-> 0, destroys |-> 0]

\* codes register_filesystem can fail with
RegisterErrs == {-EBUSY}

\* lines 364-371 and 382-385: init_inodecache and the test of its result
init_inodecache ==
    /\ mod.pc = "init"
    /\ \E ok \in BOOLEAN :
        IF ok
        THEN mod' = [mod EXCEPT !.cachep = "ptr", !.creates = @ + 1,
                                !.pc = "register"]
        ELSE mod' = [mod EXCEPT !.cachep = "NULL", !.ret = -ENOMEM,
                                !.pc = "init_failed"]
    /\ UNCHANGED mount

\* variant of lines 387-391 that returns without destroy_inodecache
register_filesystem_without_destroy ==
    /\ mod.pc = "register"
    /\ \/ mod' = [mod EXCEPT !.registered = TRUE, !.ret = 0, !.pc = "loaded"]
       \/ \E e \in RegisterErrs :
             mod' = [mod EXCEPT !.ret = e, !.pc = "init_failed"]
    /\ UNCHANGED mount

\* lines 387-396: register_filesystem; on error the cache is destroyed
register_filesystem ==
    /\ mod.pc = "register"
    /\ \/ mod' = [mod EXCEPT !.registered = TRUE, !.ret = 0, !.pc = "loaded"]
       \/ \E e \in RegisterErrs :
             mod' = [mod EXCEPT !.destroys = @ + 1, !.ret = e,
                                !.pc = "init_failed"]
    /\ UNCHANGED mount

\* no super block of this type exists: the module can be unloaded
NoSuperBlock == pc = "entry" \/ (pc = "returned" /\ sb.s_fs_info = "NULL")

\* line 402
unregister_filesystem ==
    /\ mod.pc = "loaded"
    /\ NoSuperBlock
    /\ mod' = [mod EXCEPT !.registered = FALSE, !.pc = "exit_destroy"]
    /\ UNCHANGED mount

\* line 403 with lines 374-377
destroy_inodecache ==
    /\ mod.pc = "exit_destroy"
    /\ mod' = [mod EXCEPT !.destroys = @ + 1, !.pc = "unloaded"]
    /\ UNCHANGED mount

\* the volumes mounted while the module lifecycle is explored
ModuleDisks ==
    {d \in SuperBlocks :
        /\ d.s_magic = SQUASHFS_MAGIC
        /\ d.s_major = SQUASHFS_MAJOR
        /\ d.s_minor = SQUASHFS_MINOR
        /\ d.compression = ZLIB_COMPRESSION
        /\ d.xattr_table_start = SQUASHFS_INVALID_BLK
        /\ d.block_size = SQUASHFS_FILE_SIZE
        /\ d.block_log = SQUASHFS_FILE_LOG
        /\ d.fragments # 0
        /\ d.lookup_table_start # SQUASHFS_INVALID_BLK}

ModuleInit ==
    /\ disk \in ModuleDisks
    /\ devsize \in DevSizes
    /\ silent = FALSE
    /\ pc = "entry"
    /\ sb = FreshSuperBlock
    /\ msblk = ZeroedSbInfo
    /\ sblk = "NULL"
    /\ sblkbuf = ZeroedSuperBlock
    /\ root = "NULL"
    /\ err = 0
    /\ ret = "none"
    /\ allocs = [r \in Resources |-> 0]
    /\ frees = [r \in Resources |-> 0]
    /\ uaf = FALSE
    /\ invoked = {}
    /\ diag = {}
    /\ fault = "none"
    /\ puts = 0
    /\ code = 0
    /\ statbuf = ZeroedKstatfs
    /\ remount = NoRemount
    /\ mod = UnloadedModule

ModuleNext ==
    \/ init_inodecache
    \/ register_filesystem
    \/ unregister_filesystem
    \/ destroy_inodecache
    \/ Next

ModuleSpec == ModuleInit /\ [][ModuleNext]_vars

(***************************************************************************)
(* Properties                                                              *)
(***************************************************************************)
\* resource r is allocated and not released
Live(r) == allocs[r] > frees[r]

\* squashfs_fill_super has returned an error
MountFailed == pc = "returned" /\ ret # 0

\* the resources of the acquisition sequence
AcquiredResources ==
    {"workspace", "read_page", "block_cache", "id_table", "fragment_cache",
     "fragment_index", "inode_lookup_table", "root"}

\* the faults of the acquisition sequence (the root object has three)
AcquisitionFaults ==
    {"workspace", "read_page", "block_cache", "id_table", "fragment_cache",
     "fragment_index", "inode_lookup_table", "new_inode", "read_inode",
     "d_alloc_root"}

\* every acquired resource and the mount-state record are released exactly
\* once and none is left; a root that was allocated is reclaimed once
UnwoundExactlyOnce ==
    /\ \A r \in AcquiredResources \cup {"msblk"} :
          allocs[r] <= 1 /\ frees[r] = allocs[r]
    /\ allocs["msblk"] = 1
    /\ fault \in {"read_inode", "d_alloc_root"} =>
          allocs["root"] = 1 /\ frees["root"] = 1

\* C1 as stated: after a fault at any step of the acquisition sequence,
\* when squashfs_fill_super has returned the error, every resource acquired
\* before the fault is released exactly once, none is present, a root that
\* was allocated but not attached is reclaimed exactly once, and the
\* superblock scratch copy has been freed exactly once.
C1_AtomicUnwind ==
    (MountFailed /\ fault \in AcquisitionFaults) =>
        UnwoundExactlyOnce /\ frees["sblk"] = 1

\* C1 amended: as C1, except that the scratch copy is freed exactly once
\* for a fault at any step after the workspace, and is never allocated and
\* never freed for a fault at the workspace step.
C1_AtomicUnwindAmended ==
    (MountFailed /\ fault \in AcquisitionFaults) =>
        /\ UnwoundExactlyOnce
        /\ fault # "workspace" => allocs["sblk"] = 1 /\ frees["sblk"] = 1
        /\ fault = "workspace" => allocs["sblk"] = 0 /\ frees["sblk"] = 0

\* a mount with fragments and lookup table failed at the last step: every
\* resource of the sequence was acquired and released
C1_Witness ==
    /\ MountFailed
    /\ fault = "d_alloc_root"
    /\ \A r \in AcquiredResources \cup {"sblk"} : allocs[r] = 1 /\ frees[r] = 1

\* what the mount state owns
MountStateResources ==
    {"block_cache", "fragment_cache", "read_page", "id_table",
     "fragment_index", "inode_lookup_table", "meta_index", "workspace",
     "msblk"}

\* C2: after a successful mount followed by squashfs_put_super, every
\* resource owned by the mount state has been released exactly once and
\* none remains allocated.
C2_FullTeardown ==
    (pc = "returned" /\ ret = 0 /\ puts >= 1) =>
        \A r \in MountStateResources : allocs[r] <= 1 /\ frees[r] = allocs[r]

\* C3: once squashfs_put_super has been called, a further call changes
\* nothing but the call count: it releases nothing, reads no released
\* record and leaves the super block as the first call left it, with no
\* state attached.
C3_PutSuperIdempotent ==
    [][(puts >= 1 /\ puts' = puts + 1) =>
          /\ sb.s_fs_info = "NULL"
          /\ frees' = frees
          /\ sb' = sb
          /\ uaf' = uaf /\ ~uaf
          /\ <<msblk, allocs, pc, ret>>' = <<msblk, allocs, pc, ret>>]_vars

\* a mounted volume on which squashfs_put_super ran twice
C3_Witness ==
    /\ pc = "returned"
    /\ ret = 0
    /\ puts = 2
    /\ frees["msblk"] = 1
    /\ frees["block_cache"] = 1

\* C4: after squashfs_fill_super failed at any point, no state is attached
\* to the super block, a call of squashfs_put_super releases nothing, and
\* no resource has been released more than once or used after release.
C4_PutSuperAfterFailedMount ==
    [][MountFailed =>
          /\ sb.s_fs_info = "NULL"
          /\ \A r \in Resources : frees[r] <= 1 /\ frees[r] <= allocs[r]
          /\ ~uaf
          /\ puts' = puts + 1 => (frees' = frees /\ sb' = sb /\ ~uaf')]_vars

\* squashfs_put_super ran after a mount that failed while loading the
\* fragment index
C4_Witness ==
    /\ MountFailed
    /\ puts >= 1
    /\ fault = "fragment_index"
    /\ frees["fragment_cache"] = 1

\* the steps at which the validator rejects a superblock
ValidationFaults ==
    {"magic", "supported", "bytes_used", "block_size", "block_log",
     "root_inode"}

\* the superblock of this attempt has a wrong magic or has been rejected
Rejected == disk.s_magic # SQUASHFS_MAGIC \/ fault \in ValidationFaults

\* C5 as stated: in an attempt whose superblock is rejected, apart from the
\* mount-state record the only allocation made is the scratch buffer.
C5_ValidationHardGate ==
    Rejected => \A r \in Resources \ {"msblk", "sblk"} : allocs[r] = 0

\* C5 amended: in an attempt whose superblock is rejected, apart from the
\* mount-state record the only allocations made are the decompression
\* workspace, which is allocated before the superblock is read and freed
\* by the unwind, and the scratch buffer; no cache, read-ahead buffer,
\* table or root object is allocated and no loader is called.
C5_ValidationHardGateAmended ==
    Rejected =>
        /\ \A r \in Resources \ {"msblk", "sblk", "workspace"} : allocs[r] = 0
        /\ invoked \subseteq {"squashfs_read_data"}
        /\ pc = "returned" => \A r \in {"msblk", "sblk", "workspace"} : ~Live(r)

\* a superblock with a wrong magic was read and rejected, and the attempt
\* has returned
C5_Witness ==
    /\ pc = "returned"
    /\ fault = "magic"
    /\ allocs["workspace"] = 1
    /\ frees["workspace"] = 1
    /\ frees["sblk"] = 1

\* the superblock was read and squashfs_fill_super has returned
ReadAndReturned ==
    /\ pc = "returned"
    /\ "squashfs_read_data" \in invoked
    /\ fault # "read_super"

\* no cache was created and no index table loaded
NothingLoaded ==
    /\ \A r \in {"block_cache", "fragment_cache", "id_table",
                 "fragment_index", "inode_lookup_table"} : allocs[r] = 0
    /\ invoked \subseteq {"squashfs_read_data"}

\* the on-disk version is older, or newer, than the supported one, the
\* 16-bit fields taken as the unsigned values 0..65535 they hold
OlderVersion == disk.s_major < SQUASHFS_MAJOR
NewerVersion ==
    \/ disk.s_major > SQUASHFS_MAJOR
    \/ disk.s_major = SQUASHFS_MAJOR /\ disk.s_minor > SQUASHFS_MINOR

\* C6: a superblock with correct magic whose version is older or newer
\* than the supported one makes squashfs_fill_super fail with -EINVAL with
\* no cache or index table loaded, and a newer version gets the diagnostic
\* that suggests an upgrade.
C6_VersionGate ==
    (disk.s_magic = SQUASHFS_MAGIC /\ (OlderVersion \/ NewerVersion)) =>
        /\ NothingLoaded
        /\ ReadAndReturned =>
              /\ ret = -EINVAL
              /\ NewerVersion => "update_kernel" \in diag

\* one of the four bounds is exceeded, the fields taken as the code types
\* them: bytes_used signed 64-bit, block_size unsigned 32-bit, block_log
\* unsigned 16-bit, the root inode offset the low 16 bits of root_inode
BoundExceeded ==
    \/ disk.bytes_used[1] >= 32768
    \/ LimbGT(disk.bytes_used, devsize)
    \/ LimbGT(disk.block_size, SQUASHFS_FILE_SIZE)
    \/ disk.block_log > SQUASHFS_FILE_LOG
    \/ disk.root_inode[4] > SQUASHFS_METADATA_SIZE

\* the attempt got past the magic and the version/compression checks
PassedFormatChecks ==
    /\ ReadAndReturned
    /\ fault \notin {"magic", "supported"}

\* C7: a superblock that passed the magic and version/compression checks
\* is rejected with -EINVAL, before any cache, buffer or table is
\* acquired, if one of the four bounds is exceeded, and is not rejected by
\* the bounds checks otherwise: a value equal to its bound is accepted.
C7_BoundsGate ==
    PassedFormatChecks =>
        /\ BoundExceeded =>
              /\ fault \in {"bytes_used", "block_size", "block_log", "root_inode"}
              /\ ret = -EINVAL
              /\ NothingLoaded
              /\ allocs["read_page"] = 0
        /\ ~BoundExceeded =>
              fault \notin {"bytes_used", "block_size", "block_log", "root_inode"}

\* bytes_used, block_size and block_log equal to their bounds were accepted
\* and the root inode offset, one above its bound, was rejected
C7_Witness ==
    /\ pc = "returned"
    /\ fault = "root_inode"
    /\ ret = -EINVAL
    /\ disk.bytes_used = devsize
    /\ disk.block_size = SQUASHFS_FILE_SIZE
    /\ disk.block_log = SQUASHFS_FILE_LOG

\* a mount that went through although every bounded field sits on its bound
C7_WitnessAtBound ==
    /\ pc = "returned"
    /\ ret = 0
    /\ disk.bytes_used = devsize
    /\ disk.block_size = SQUASHFS_FILE_SIZE
    /\ disk.block_log = SQUASHFS_FILE_LOG
    /\ disk.root_inode[4] = SQUASHFS_METADATA_SIZE

\* C8: a superblock with correct magic whose compression is not the
\* supported one makes squashfs_fill_super fail with -EINVAL whatever its
\* other fields, and no cache or index table is loaded.
C8_CompressionGate ==
    (disk.s_magic = SQUASHFS_MAGIC /\ disk.compression # ZLIB_COMPRESSION) =>
        /\ NothingLoaded
        /\ ReadAndReturned => ret = -EINVAL

\* a superblock with supported version and in-bounds sizes was rejected
\* for its compression alone
C8_Witness ==
    /\ ReadAndReturned
    /\ fault = "supported"
    /\ disk.s_magic = SQUASHFS_MAGIC
    /\ disk.s_major = SQUASHFS_MAJOR
    /\ disk.s_minor = SQUASHFS_MINOR
    /\ disk.compression # ZLIB_COMPRESSION
    /\ ~BoundExceeded

\* C9: in an attempt on a superblock with fragments = 0 the fragment cache
\* and the fragment index table are absent in every state, and neither the
\* fragment cache constructor nor the fragment index loader is called.
C9_NoFragmentSubsystem ==
    disk.fragments = 0 =>
        /\ allocs["fragment_cache"] = 0
        /\ allocs["fragment_index"] = 0
        /\ msblk.fragment_cache = "NULL"
        /\ msblk.fragment_index = "NULL"
        /\ "squashfs_cache_init_fragment" \notin invoked
        /\ "read_fragment_index_table" \notin invoked

\* a volume without fragments is mounted
C9_Witness ==
    /\ Mounted
    /\ disk.fragments = 0
    /\ msblk.id_table = "ptr"

\* C10: in an attempt on a superblock whose lookup_table_start is the
\* absent sentinel the inode lookup loader is never called, the inode
\* lookup table stays absent and export is never enabled.
C10_NoExportWithoutLookupTable ==
    disk.lookup_table_start = SQUASHFS_INVALID_BLK =>
        /\ "read_inode_lookup_table" \notin invoked
        /\ allocs["inode_lookup_table"] = 0
        /\ msblk.inode_lookup_table = "NULL"
        /\ sb.s_export_op = "NULL"

\* a volume without inode lookup table is mounted
C10_Witness ==
    /\ Mounted
    /\ disk.lookup_table_start = SQUASHFS_INVALID_BLK
    /\ sb.s_root = "dentry"

\* resource r is held through the member of the mount state that owns it
Held(r) == msblk[r] = "ptr" /\ allocs[r] = 1 /\ frees[r] = 0

\* C11: whenever squashfs_fill_super has returned 0, the mount state holds
\* the workspace, the read-ahead buffer, the metadata cache, the id table
\* and an attached root; the fragment cache and the fragment index are
\* present iff fragments > 0; the inode lookup table is present and export
\* enabled iff lookup_table_start is not the sentinel; the scratch copy has
\* been freed exactly once.
C11_SuccessfulMountPostState ==
    Mounted =>
        /\ \A r \in {"workspace", "read_page", "block_cache", "id_table"} : Held(r)
        /\ sb.s_root = "dentry" /\ allocs["root"] = 1 /\ frees["root"] = 0
        /\ Held("fragment_cache") <=> disk.fragments > 0
        /\ Held("fragment_index") <=> disk.fragments > 0
        /\ disk.fragments = 0 =>
              msblk.fragment_cache = "NULL" /\ msblk.fragment_index = "NULL"
        /\ Held("inode_lookup_table") <=>
              disk.lookup_table_start # SQUASHFS_INVALID_BLK
        /\ sb.s_export_op # "NULL" <=>
              disk.lookup_table_start # SQUASHFS_INVALID_BLK
        /\ allocs["sblk"] = 1 /\ frees["sblk"] = 1
        /\ fault = "none"

\* a volume with five fragments and an inode lookup table is mounted
C11_Witness ==
    /\ Mounted
    /\ disk.fragments = 5
    /\ disk.lookup_table_start # SQUASHFS_INVALID_BLK
    /\ sb.s_export_op = "squashfs_export_ops"
    /\ puts = 0

\* squashfs_statfs has filled the buffer
StatfsDone == statbuf.f_type = SQUASHFS_MAGIC

\* ceil(a / b) for a >= 0 and b > 0
CeilDiv(a, b) == (a + b - 1) \div b

\* C12: for every combination of bytes_used, block_size and block_log the
\* validator accepts, squashfs_statfs reports f_blocks equal to
\* ceil(bytes_used / block_size).
C12_StatfsBlockCount ==
    StatfsDone =>
        statbuf.f_blocks = CeilDiv(SmallValue(disk.bytes_used),
                                   SmallValue(disk.block_size))

\* C13: for every requested flag set and option string squashfs_remount
\* returns 0, the resulting flags have the read-only bit set and every
\* other bit as requested, and the mount state is unchanged.
C13_RemountForcesReadOnly ==
    [][remount' # remount =>
          /\ remount'.called
          /\ remount'.ret = 0
          /\ remount'.flags % 2 = 1
          /\ remount'.flags \div 2 = remount'.requested \div 2
          /\ <<sb, msblk, allocs, frees, uaf, statbuf, pc, ret, puts>>'
                = <<sb, msblk, allocs, frees, uaf, statbuf, pc, ret, puts>>]_vars

\* a remount that asked for a writable mount with another flag set
C13_Witness ==
    /\ remount.called
    /\ remount.requested = 1024
    /\ remount.data = "rw"
    /\ remount.flags = 1025
    /\ Mounted

\* C14: in every reachable state of a super block, if the export
\* capability is enabled then the inode lookup table is present, that is
\* loaded and not yet released.
C14_ExportImpliesLookupTable ==
    sb.s_export_op # "NULL" => Live("inode_lookup_table")

\* resource r has been acquired at some point of the attempt
Acquired(r) == allocs[r] > 0

\* the superblock makes the attempt skip resource r
Skipped(r) ==
    \/ r \in {"fragment_cache", "fragment_index"} /\ disk.fragments = 0
    \/ r = "inode_lookup_table" /\ disk.lookup_table_start = SQUASHFS_INVALID_BLK

\* no resource is acquired before one that precedes it in order, and a
\* skipped resource is never acquired
InOrder(order) ==
    /\ \A j \in 1..Len(order) : \A i \in 1..(j - 1) :
          Acquired(order[j]) => (Acquired(order[i]) \/ Skipped(order[i]))
    /\ \A i \in 1..Len(order) : Skipped(order[i]) => ~Acquired(order[i])

\* a step acquires at most one resource, and none once a step has failed
OneAtATimeUntilFailure ==
    /\ Cardinality({r \in Resources : allocs'[r] # allocs[r]}) <= 1
    /\ fault # "none" => allocs' = allocs

\* the order the claim gives
ClaimedOrder ==
    <<"workspace", "read_page", "block_cache", "id_table", "fragment_cache",
      "fragment_index", "inode_lookup_table", "root">>

\* the order of lines 89, 198, 204, 211, 223, 231, 245, 256
SourceOrder ==
    <<"workspace", "block_cache", "read_page", "id_table", "fragment_cache",
      "fragment_index", "inode_lookup_table", "root">>

\* C15 as stated: resources are acquired in the order workspace, read-ahead
\* buffer, metadata cache, id table, fragment cache and fragment index (if
\* fragments > 0), inode lookup table (if present), root; none is acquired
\* before one that precedes it, and the first failing step stops the
\* sequence.
C15_AcquisitionOrder ==
    []InOrder(ClaimedOrder) /\ [][OneAtATimeUntilFailure]_vars

\* C15 amended: the same with the metadata cache acquired before the
\* read-ahead buffer: workspace, metadata cache, read-ahead buffer, id
\* table, fragment cache and fragment index, inode lookup table, root.
C15_AcquisitionOrderAmended ==
    []InOrder(SourceOrder) /\ [][OneAtATimeUntilFailure]_vars

\* the attempt stopped at the root with every resource before it acquired
C15_Witness ==
    /\ fault = "new_inode"
    /\ disk.fragments = 5
    /\ \A i \in 1..7 : Acquired(SourceOrder[i])
    /\ ~Acquired("root")

\* the steps whose own error code is handed on: the superblock read, the
\* three table loaders and the root inode read
PropagatingFaults ==
    {"read_super", "id_table", "fragment_index", "inode_lookup_table",
     "read_inode"}

\* the steps that allocate memory or create a cache
AllocationFaults ==
    {"msblk", "workspace", "sblk", "block_cache", "read_page",
     "fragment_cache", "new_inode", "d_alloc_root"}

\* C16: when squashfs_fill_super has returned, the value is that of the
\* first failing step: the code of the superblock read, of a table loader or
\* of the root inode read as that step gave it, -EINVAL for a validation
\* rejection, -ENOMEM for an allocation or cache-creation failure, and 0
\* only if no step failed.
C16_ErrorCodePropagation ==
    pc = "returned" =>
        /\ fault \in PropagatingFaults => ret = code
        /\ fault \in ValidationFaults => ret = -EINVAL
        /\ fault \in AllocationFaults => ret = -ENOMEM
        /\ ret = 0 <=> fault = "none"
        /\ fault \in PropagatingFaults \cup ValidationFaults
                       \cup AllocationFaults \cup {"none"}

\* a table loader failed with -EIO after line 196 had set err to -ENOMEM,
\* and -EIO is what was returned
C16_Witness ==
    /\ pc = "returned"
    /\ fault = "id_table"
    /\ code = -EIO
    /\ ret = -EIO

\* the steps of squashfs_fill_super before the first cache is created: the
\* workspace and scratch allocations, the superblock read and its checks
ValidatingSteps ==
    {"workspace", "sblk", "read_super", "magic", "supported", "sanity"}

\* the steps that build the mount state, in order
AcquiringSteps ==
    <<"block_cache", "read_page", "id_table", "fragments", "fragment_index",
      "lookup_table", "new_inode", "read_inode", "d_alloc_root">>

\* position of step p among the acquiring steps, 0 if it is not one
AcquiringStep(p) ==
    IF \E i \in 1..Len(AcquiringSteps) : AcquiringSteps[i] = p
    THEN CHOOSE i \in 1..Len(AcquiringSteps) : AcquiringSteps[i] = p
    ELSE 0

\* the state of the mount instance at step p with returned value r and
\* attached mount state info
Phase(p, r, info) ==
    IF p = "entry" THEN "UNINITIALIZED"
    ELSE IF p \in ValidatingSteps THEN "VALIDATING"
    ELSE IF AcquiringStep(p) > 0 THEN "ACQUIRING"
    ELSE IF p \in {"failed_mount", "failure"} THEN "RELEASING"
    ELSE IF r = 0 /\ info # "NULL" THEN "MOUNTED"
    ELSE "RELEASED"

\* the transitions of the state machine; the first allocation failing
\* (line 85) and squashfs_put_super are single steps that pass through
\* RELEASING, and an acquiring step leads to a later acquiring step
PhaseTransitions ==
    {<<"UNINITIALIZED", "VALIDATING">>, <<"UNINITIALIZED", "RELEASED">>,
     <<"VALIDATING", "VALIDATING">>, <<"VALIDATING", "ACQUIRING">>,
     <<"VALIDATING", "RELEASING">>, <<"ACQUIRING", "ACQUIRING">>,
     <<"ACQUIRING", "MOUNTED">>, <<"ACQUIRING", "RELEASING">>,
     <<"MOUNTED", "MOUNTED">>, <<"MOUNTED", "RELEASED">>,
     <<"RELEASING", "RELEASED">>, <<"RELEASED", "RELEASED">>}

\* a step of the mount instance follows the state machine
LegalPhaseStep ==
    /\ <<Phase(pc, ret, sb.s_fs_info), Phase(pc', ret', sb'.s_fs_info)>>
           \in PhaseTransitions
    /\ AcquiringStep(pc) > 0 /\ AcquiringStep(pc') > 0
           => AcquiringStep(pc') > AcquiringStep(pc)
    /\ fault' # "none" => Phase(pc', ret', sb'.s_fs_info)
                              \in {"RELEASING", "RELEASED"}

\* a released mount instance holds nothing of the mount state
ReleasedHoldsNothing ==
    Phase(pc, ret, sb.s_fs_info) = "RELEASED" =>
        \A r \in MountStateResources \cup {"sblk"} : ~Live(r)

\* the steps alone follow the state machine
PhaseStepsLegal == [][LegalPhaseStep]_vars

\* C17: every mount attempt follows UNINITIALIZED, VALIDATING, ACQUIRING,
\* MOUNTED, RELEASING, RELEASED; an error while validating or acquiring
\* leads to RELEASING, never to MOUNTED or back to UNINITIALIZED; and a
\* released instance holds no resource.
C17_MountStateMachine ==
    []ReleasedHoldsNothing /\ [][LegalPhaseStep]_vars

\* superblock s with the extended attribute table marked absent: two
\* superblocks that differ only in xattr_table_start have the same one
WithoutXattr(s) == [s EXCEPT !.xattr_table_start = SQUASHFS_INVALID_BLK]

\* the check of lines 123-168 that rejects superblock s on a device of the
\* given size, "none" when it passes them all
ValidationOf(s, size) ==
    IF s.s_magic # SQUASHFS_MAGIC THEN "magic"
    ELSE IF supported_squashfs_filesystem(s.s_major, s.s_minor,
                                          s.compression).err < 0
        THEN "supported"
    ELSE sanity_failure(s, size)

\* the steps in the order of the code; the checks of the superblock stand
\* at "validation", a completed attempt at "none"
StepOrder ==
    <<"msblk", "workspace", "sblk", "read_super", "validation", "block_cache",
      "read_page", "id_table", "fragment_cache", "fragment_index",
      "inode_lookup_table", "new_inode", "read_inode", "d_alloc_root",
      "none">>

\* position of step f in that order
StepIndex(f) ==
    LET g == IF f \in ValidationFaults THEN "validation" ELSE f
    IN  CHOOSE i \in 1..Len(StepOrder) : StepOrder[i] = g

\* the step that acquires resource r
StepAcquiring(r) == IF r = "root" THEN "new_inode" ELSE r

\* resource r is acquired by an attempt on superblock s that stopped at f
AcquiredBy(r, s, f) ==
    /\ StepIndex(StepAcquiring(r)) < StepIndex(f)
    /\ r \in {"fragment_cache", "fragment_index"} => has_fragments(s.fragments)
    /\ r = "inode_lookup_table" => has_lookup_table(s.lookup_table_start)

\* the diagnostics, the warning about extended attributes apart, of an
\* attempt on superblock s that stopped at f
DiagnosticsApartFromWarning(s, f) ==
    IF f = "msblk" THEN {"alloc_sb_info"}
    ELSE IF f = "workspace" THEN {"alloc_workspace"}
    ELSE IF f = "sblk" THEN {"alloc_super_block"}
    ELSE IF f = "read_super" THEN {"read_super_block"}
    ELSE IF f = "magic" THEN (IF silent THEN {} ELSE {"no_superblock"})
    ELSE IF f = "supported"
        THEN supported_squashfs_filesystem(s.s_major, s.s_minor,
                                           s.compression).msgs
    ELSE IF f = "read_page" THEN {"alloc_read_page"}
    ELSE IF f = "d_alloc_root" THEN {"root_create_failed"}
    ELSE {}

\* C18: when squashfs_fill_super has returned, what it did is what the
\* superblock with xattr_table_start set to the sentinel, the device size
\* and the injected failure determine: the check that rejected it, the
\* returned value, the resources acquired, the mount state left and every
\* diagnostic but the warning; so two superblocks that differ only in
\* xattr_table_start give the same result, and the warning is the only
\* difference.
C18_XattrsDoNotInfluenceMount ==
    pc = "returned" =>
        LET s == WithoutXattr(disk)
        IN  /\ fault \in ValidationFaults => fault = ValidationOf(s, devsize)
            /\ StepIndex(fault) > StepIndex("validation")
                  => ValidationOf(s, devsize) = "none"
            /\ ret = (IF fault = "none" THEN 0
                      ELSE IF fault \in {"read_super", "id_table",
                                         "fragment_index",
                                         "inode_lookup_table", "read_inode"}
                          THEN code
                      ELSE IF fault \in ValidationFaults THEN -EINVAL
                      ELSE -ENOMEM)
            /\ \A r \in Resources \ {"meta_index"} :
                  allocs[r] = (IF AcquiredBy(r, s, fault) THEN 1 ELSE 0)
            /\ fault # "none" => sb.s_fs_info = "NULL"
            /\ Mounted =>
                  /\ msblk.bytes_used = s.bytes_used
                  /\ msblk.block_size = s.block_size
                  /\ msblk.block_log = s.block_log
                  /\ msblk.inodes = s.inodes
                  /\ \A r \in MountStateResources \ {"msblk", "meta_index"} :
                        msblk[r] = "ptr" <=> AcquiredBy(r, s, fault)
                  /\ sb.s_export_op # "NULL"
                        <=> has_lookup_table(s.lookup_table_start)
            /\ diag \ {"xattrs_ignored"} = DiagnosticsApartFromWarning(s, fault)
            /\ "xattrs_ignored" \in diag
                  <=> /\ disk.xattr_table_start # SQUASHFS_INVALID_BLK
                      /\ StepIndex(fault) >= StepIndex("validation")
                      /\ fault \notin {"magic", "supported"}

\* a superblock with extended attributes was mounted, with the warning
C18_Witness ==
    /\ Mounted
    /\ disk.xattr_table_start # SQUASHFS_INVALID_BLK
    /\ "xattrs_ignored" \in diag

\* the diagnostics of an attempt that stopped at step f (or did not stop,
\* f = "none"), the magic-mismatch one apart: they follow from the step and
\* the superblock alone
DiagnosticsOf(f) ==
    IF f = "msblk" THEN {"alloc_sb_info"}
    ELSE IF f = "workspace" THEN {"alloc_workspace"}
    ELSE IF f = "sblk" THEN {"alloc_super_block"}
    ELSE IF f = "read_super" THEN {"read_super_block"}
    ELSE IF f = "magic" THEN {}
    ELSE IF f = "supported"
        THEN supported_squashfs_filesystem(disk.s_major, disk.s_minor,
                                           disk.compression).msgs
    ELSE (IF disk.xattr_table_start # SQUASHFS_INVALID_BLK
          THEN {"xattrs_ignored"} ELSE {})
         \cup (IF f = "read_page" THEN {"alloc_read_page"} ELSE {})
         \cup (IF f = "d_alloc_root" THEN {"root_create_failed"} ELSE {})

\* the value returned by an attempt that stopped at step f
ReturnOf(f) ==
    IF f = "none" THEN 0
    ELSE IF f \in PropagatingFaults THEN code
    ELSE IF f \in ValidationFaults THEN -EINVAL
    ELSE -ENOMEM

\* C19: when squashfs_fill_super has returned, a magic mismatch with silent
\* set gave -EINVAL and no diagnostic at all; the magic-mismatch diagnostic
\* is there exactly when the magic mismatched and silent was not set; every
\* other diagnostic, the returned value and the resources released follow
\* from the failing step and the superblock, whatever silent is.
C19_SilentScope ==
    pc = "returned" =>
        /\ silent /\ fault = "magic" => ret = -EINVAL /\ diag = {}
        /\ "no_superblock" \in diag <=> fault = "magic" /\ ~silent
        /\ diag \ {"no_superblock"} = DiagnosticsOf(fault)
        /\ ret = ReturnOf(fault)
        /\ ret # 0 => \A r \in Resources : frees[r] = allocs[r]

\* a silent attempt on a newer version was rejected and reported
C19_Witness ==
    /\ pc = "returned"
    /\ silent
    /\ fault = "supported"
    /\ ret = -EINVAL
    /\ "newer_filesystem" \in diag

\* the per-file object pool exists: created and not destroyed
PoolExists == mod.creates > mod.destroys

\* C20: in every state of module init and exit, the filesystem type is
\* registered only while the pool exists and a mount runs only while it is
\* registered; the pool is created at most once and destroyed at most once;
\* init failing at cache creation returns -ENOMEM with no pool and no
\* registration; a failed registration leaves the pool destroyed and
\* returns the registration error; after exit the type is unregistered and
\* the pool destroyed.
C20_ModuleLifecycleOrdering ==
    /\ mod.registered => PoolExists
    /\ mod.creates <= 1 /\ mod.destroys <= mod.creates
    /\ mod.pc \in {"register", "loaded", "exit_destroy"} <=> PoolExists
    /\ mod.registered <=> mod.pc = "loaded"
    /\ ~NoSuperBlock => mod.registered
    /\ mod.pc = "init_failed" =>
          /\ mod.creates = 0 => mod.ret = -ENOMEM
          /\ mod.creates = 1 => mod.destroys = 1 /\ mod.ret \in RegisterErrs
    /\ mod.pc = "unloaded" => mod.creates = 1 /\ mod.destroys = 1

\* the module was unloaded after a volume had been mounted and unmounted
C20_Witness ==
    /\ mod.pc = "unloaded"
    /\ pc = "returned"
    /\ ret = 0
    /\ puts = 1

====
